---- MODULE Spec2Model ----
(***************************************************************************)
(* A model of diagnose_dwarf.py: main() as a state machine whose steps are *)
(* the statements of the script, the values returned by the external       *)
(* libraries (pyelftools, the TYGR helpers, angr) being inputs drawn where  *)
(* the script reads them.                                                  *)
(***************************************************************************)
EXTENDS Integers, Sequences, FiniteSets, TLC

\* ------------------------------------------------------------------ bounds
\* DIEs in the DWARF data of one run (all compilation units together).
MaxDies == 2
\* Largest address or offset value carried by DW_AT_low_pc / DW_AT_high_pc.
MaxPC == 2
\* Longest range list resolved for DW_AT_ranges.
MaxRanges == 2
\* Longest subprogram list returned by dwarf_info_to_subprograms.
MaxSubprogs == 2
\* Most variables returned by dwarf_subprogram_to_vars (more than ShownVars).
MaxVars == 6
\* Most functions in the recovered CFG (more than ListedFuncs).
MaxFuncs == 11
\* DIEs of the tree that iter_die is applied to on its own (SpecWalk).
MaxTree == 5

\* ------------------------------------------------------- program constants
\* sys.exit(1)
ExitFailure == 1
\* vars_list[:5]
ShownVars == 5
\* list(cfg.functions.items())[:10]
ListedFuncs == 10
\* high_pc = None
None == -1

Min(a, b) == IF a < b THEN a ELSE b

Subprogram == "DW_TAG_subprogram"
Tags == {"DW_TAG_subprogram", "DW_TAG_compile_unit"}
AttrNames == {"DW_AT_ranges", "DW_AT_low_pc", "DW_AT_high_pc"}
\* What describe_form_class can answer for DW_AT_high_pc; "block" stands for
\* every class that is neither "address" nor "constant".
FormClasses == {"address", "constant", "block"}
\* describe_form_class(form) is a table lookup: a form outside the table
\* raises KeyError.
FormOutcomes == FormClasses \cup {"KeyError"}
\* A range-list entry, as the set of the probed attribute names it has
\* (offset-pair or address-pair encoding).
EntryShapes == {{"begin_offset", "end_offset"}, {"begin_address", "end_address"}}
ProbedNames == <<"begin_offset", "end_offset", "begin_address", "end_address", "start_offset">>
\* What DW_AT_name holds: nothing, a str, bytes that are UTF-8, bytes that
\* are not.
Names == {"absent", "str", "utf8", "not_utf8"}

VARIABLES
    pc,              \* the statement main() is at
    argc,            \* len(sys.argv)
    exit_code,       \* the process's exit status (None while running)
    uncaught,        \* where an exception left main() uncaught ("" if none)
    children,        \* the DIE trees: children[d] is d.iter_children(), in order;
                     \* node 0 is the DWARF info, its children the CUs' top DIEs
    tag,             \* tag[d] is d.tag
    cu_count, subprog_count, subprog_with_pc,
    cuIdx,           \* compilation units the outer loop has taken
    dieIdx,          \* DIEs of the current CU the inner loop has taken
    die,             \* the DIE the loop body has just handled (NoDie outside it)
    nSubprogs,       \* len(subprog_list)
    subIdx,          \* subprograms the cross-check loop has taken
    subprog,         \* the subprogram tuple the cross-check loop has just handled
    cfg,             \* the recovered CFG: number of functions, main_addr in it
    out,             \* the lines the last step printed
    printed,         \* the phase-level lines printed so far
    yielded          \* what a consumer of iter_die(root) has been given so far

vars == <<pc, argc, exit_code, uncaught, children, tag, cu_count, subprog_count,
          subprog_with_pc, cuIdx, dieIdx, die, nSubprogs, subIdx, subprog, cfg,
          out, printed, yielded>>

\* ------------------------------------------------------------------ output
Line(kind, a, b) == [kind |-> kind, a |-> a, b |-> b]
Msg(kind) == Line(kind, 0, 0)
Kinds(lines) == {lines[i].kind : i \in 1..Len(lines)}
CountKind(lines, kind) == Cardinality({i \in 1..Len(lines) : lines[i].kind = kind})
\* The lines that mark a phase's start, end or failure.
Markers == {"Usage", "Analyzing", "NoDwarf", "DwarfFound", "Summary",
            "TygrHeader", "TygrFound", "ErrTygr", "SymHeader", "Project",
            "Warning", "MainFound", "StrategyHeader", "Attempting", "Result",
            "ErrSimExec", "ErrSym"}
Emit(lines) == /\ out' = lines
               /\ printed' = printed \cup (Kinds(lines) \cap Markers)

\* ------------------------------------------------------------ the DIE tree
RECURSIVE SortedSeq(_)
SortedSeq(S) ==
    IF S = {} THEN <<>>
    ELSE LET m == CHOOSE x \in S : \A y \in S : x <= y
         IN  <<m>> \o SortedSeq(S \ {m})

Reverse(s) == [i \in 1..Len(s) |-> s[Len(s) + 1 - i]]

\* The parent links of n DIEs laid out in file order: a DIE follows its
\* parent; parent 0 makes it the top DIE of a compilation unit.
ParentMaps(n) == {par \in [1..n -> 0..n] : \A i \in 1..n : par[i] < i}

\* The children lists of the DIEs 0..n under parent links par; rev[d] tells
\* whether iter_children gives d's children in descending order.
ChildrenOf(n, par, rev) ==
    [d \in 0..n |->
        LET cs == SortedSeq({c \in 1..n : par[c] = d})
        IN  IF rev[d] THEN Reverse(cs) ELSE cs]

iter_children(d) == children[d]

RECURSIVE IterDie(_)
RECURSIVE YieldFromChildren(_)

\* for child in die.iter_children(): yield from iter_die(child)
YieldFromChildren(cs) ==
    IF cs = <<>> THEN <<>>
    ELSE IterDie(Head(cs)) \o YieldFromChildren(Tail(cs))

\* A faulty iter_die that does not descend into the children.
IterDieNoDescent(d) == <<d>>

\* A faulty iter_die that yields the node after its children.
IterDiePostOrder(d) == YieldFromChildren(iter_children(d)) \o <<d>>

\* iter_die(die): everything the generator yields, in the order it yields it.
IterDie(d) == <<d>> \o YieldFromChildren(iter_children(d))

\* dwarf_info.iter_CUs(), each CU standing as its top DIE (cu.get_top_DIE()).
iter_CUs == children[0]
cu_die == iter_CUs[cuIdx]

\* ------------------------------------------------------------ DIE inputs
\* A DIE as the loop body sees it: its name, the keys of die.attributes, and
\* the value of each attribute the body goes on to read (the others stay as
\* in NoDie).
NoDie == [id |-> 0, tag |-> "", name |-> "", attrs |-> {}, ranges_raises |-> FALSE,
          ranges |-> <<>>, low_pc |-> 0, form_class |-> "", high_val |-> 0]

\* The range lists get_range_list_at_offset may resolve.
RangeLists == UNION {[1..n -> EntryShapes] : n \in 0..MaxRanges}

\* What a DIE d with the attribute keys in attrs can hold where the body reads.
DieInputsWith(d, attrs) ==
    IF "DW_AT_ranges" \in attrs THEN
        {[NoDie EXCEPT !.id = d, !.tag = Subprogram, !.attrs = attrs,
                       !.ranges_raises = TRUE]}
        \cup {[NoDie EXCEPT !.id = d, !.tag = Subprogram, !.attrs = attrs,
                            !.ranges = rl] : rl \in RangeLists}
    ELSE IF "DW_AT_low_pc" \in attrs THEN
        IF "DW_AT_high_pc" \in attrs THEN
            {[NoDie EXCEPT !.id = d, !.tag = Subprogram, !.attrs = attrs,
                           !.low_pc = lo, !.form_class = fc, !.high_val = hv] :
                lo \in 0..MaxPC, fc \in FormClasses, hv \in 0..MaxPC}
            \cup {[NoDie EXCEPT !.id = d, !.tag = Subprogram, !.attrs = attrs,
                                !.low_pc = lo, !.form_class = "KeyError"] :
                    lo \in 0..MaxPC}
        ELSE
            {[NoDie EXCEPT !.id = d, !.tag = Subprogram, !.attrs = attrs,
                           !.low_pc = lo] : lo \in 0..MaxPC}
    ELSE {[NoDie EXCEPT !.id = d, !.tag = Subprogram, !.attrs = attrs]}

\* A name that does not decode ends the body before any attribute is read.
DieInputs(d) ==
    IF tag[d] = Subprogram
    THEN {[r EXCEPT !.name = nm] :
             r \in UNION {DieInputsWith(d, attrs) : attrs \in SUBSET AttrNames},
             nm \in Names \ {"not_utf8"}}
         \cup {[NoDie EXCEPT !.id = d, !.tag = Subprogram, !.attrs = attrs,
                             !.name = "not_utf8"] : attrs \in SUBSET AttrNames}
    ELSE {[NoDie EXCEPT !.id = d, !.tag = tag[d]]}

\* func_name = die.attributes.get("DW_AT_name"), its value, decoded if bytes
FuncName(d) ==
    IF d.name = "absent" THEN [text |-> "None", raised |-> FALSE]
    ELSE IF d.name = "str" THEN [text |-> "str", raised |-> FALSE]
    ELSE IF d.name = "utf8" THEN [text |-> "str", raised |-> FALSE]
    ELSE [text |-> "", raised |-> TRUE]

\* --------------------------------------------------- the PC-range resolver
\* A faulty test, "if x is not None", that lets a zero through.
TruthyNotNone(x) == x # None

\* if x:  for an integer or None
Truthy(x) == x # None /\ x # 0

\* hasattr(first_range, name) for each probed name, one line per name found
FirstEntryLines(first_range) ==
    LET has == {i \in 1..Len(ProbedNames) : ProbedNames[i] \in first_range}
    IN  [k \in 1..Cardinality(has) |-> Line("HasAttr", SortedSeq(has)[k], 0)]

\* A faulty ranges branch that describes every entry of the list.
RangesResolvedEveryEntry(d) ==
    [lines |-> <<Line("Subprogram", d.id, 0), Msg("HasRanges"), Msg("RangeListType")>>
               \o [i \in 1..Len(d.ranges) |-> Msg("FirstRangeEntry")],
     with_pc |-> IF d.ranges # <<>> THEN 1 ELSE 0,
     raised |-> FALSE]

\* if ranges: the first entry is described and the subprogram counted
RangesResolved(d) ==
    [lines |-> <<Line("Subprogram", d.id, 0), Msg("HasRanges"), Msg("RangeListType")>>
               \o (IF d.ranges # <<>>
                   THEN <<Msg("FirstRangeEntry")>> \o FirstEntryLines(d.ranges[1])
                   ELSE <<>>),
     with_pc |-> IF d.ranges # <<>> THEN 1 ELSE 0,
     raised |-> FALSE]

\* except Exception as e: around the ranges branch
RangesError(d) ==
    [lines |-> <<Line("Subprogram", d.id, 0), Msg("ErrRanges")>>, with_pc |-> 0,
     raised |-> FALSE]

\* Method 1: DW_AT_ranges
RangesBranch(d) == IF d.ranges_raises THEN RangesError(d) ELSE RangesResolved(d)

\* A faulty resolution that takes a "constant" high_pc as an address.
HighPcConstantAsIs(low_pc, form_class, value) ==
    IF form_class \in {"address", "constant"} THEN value ELSE None

\* high_pc from the form class of DW_AT_high_pc
HighPc(low_pc, form_class, value) ==
    IF form_class = "address" THEN value
    ELSE IF form_class = "constant" THEN low_pc + value
    ELSE None

\* Method 2: DW_AT_low_pc / DW_AT_high_pc
LowHighBranch(d) ==
    IF "DW_AT_high_pc" \in d.attrs
    THEN IF d.form_class = "KeyError"
         THEN [lines |-> <<>>, with_pc |-> 0, raised |-> TRUE]
         ELSE LET high_pc == HighPc(d.low_pc, d.form_class, d.high_val)
              IN  IF Truthy(high_pc)
                  THEN [lines |-> <<Line("Subprogram", d.id, 0),
                                    Line("LowHigh", d.low_pc, high_pc)>>,
                        with_pc |-> 1, raised |-> FALSE]
                  ELSE [lines |-> <<>>, with_pc |-> 0, raised |-> FALSE]
    ELSE [lines |-> <<>>, with_pc |-> 0, raised |-> FALSE]

\* A faulty last branch that counts the subprogram as having a PC range.
NoPcBranchCounted(d) ==
    [lines |-> <<Line("NoPcInfo", d.id, 0)>>, with_pc |-> 1, raised |-> FALSE]

\* else: NO PC INFO
NoPcBranch(d) ==
    [lines |-> <<Line("NoPcInfo", d.id, 0)>>, with_pc |-> 0, raised |-> FALSE]

\* The body of "for die in iter_die(cu_die)" for one DIE: what it prints, what
\* it adds to subprog_count and subprog_with_pc, and whether it raises.
LoopBody(d) ==
    IF d.tag = Subprogram
    THEN IF FuncName(d).raised
         THEN [lines |-> <<>>, subprog |-> 1, with_pc |-> 0, raised |-> TRUE]
         ELSE LET r == IF "DW_AT_ranges" \in d.attrs THEN RangesBranch(d)
                       ELSE IF "DW_AT_low_pc" \in d.attrs THEN LowHighBranch(d)
                       ELSE NoPcBranch(d)
              IN  [lines |-> r.lines, subprog |-> 1, with_pc |-> r.with_pc,
                   raised |-> r.raised]
    ELSE [lines |-> <<>>, subprog |-> 0, with_pc |-> 0, raised |-> FALSE]

\* ------------------------------------------------- main(): input validation
NoSubprog == [idx |-> 0, header_raises |-> FALSE, vars_raises |-> FALSE, nvars |-> 0]
NoCfg == [functions |-> 0, has_main |-> FALSE]

Init ==
    /\ pc = "start"
    /\ argc \in 1..2
    /\ exit_code = None
    /\ uncaught = ""
    /\ children = [d \in 0..0 |-> <<>>]
    /\ tag = <<>>
    /\ cu_count = 0 /\ subprog_count = 0 /\ subprog_with_pc = 0
    /\ cuIdx = 0 /\ dieIdx = 0 /\ die = NoDie
    /\ nSubprogs = 0 /\ subIdx = 0 /\ subprog = NoSubprog
    /\ cfg = NoCfg
    /\ out = <<>> /\ printed = {}
    /\ yielded = <<>>

\* sys.exit(1) after printing lines
Exit(lines) ==
    /\ Emit(lines)
    /\ exit_code' = ExitFailure
    /\ pc' = "exit"

\* An exception nothing catches: main() is left with a traceback, status 1.
Uncaught(where) ==
    /\ uncaught' = where
    /\ exit_code' = ExitFailure
    /\ pc' = "crashed"
    /\ out' = <<Msg("Traceback")>>
    /\ UNCHANGED printed

\* if len(sys.argv) < 2: usage, exit; else the two opening lines
CheckArgs ==
    /\ pc = "start"
    /\ IF argc < 2
       THEN Exit(<<Msg("Usage")>>)
       ELSE /\ Emit(<<Msg("Analyzing"), Msg("Version")>>)
            /\ pc' = "open"
            /\ UNCHANGED exit_code
    /\ UNCHANGED <<argc, uncaught, children, tag, cu_count, subprog_count,
                   subprog_with_pc, cuIdx, dieIdx, die, nSubprogs, subIdx,
                   subprog, cfg, yielded>>

\* open(binary_path) or ELFFile(f) raises: nothing catches it
OpenRaises ==
    /\ pc = "open"
    /\ Uncaught("open")
    /\ UNCHANGED <<argc, children, tag, cu_count, subprog_count,
                   subprog_with_pc, cuIdx, dieIdx, die, nSubprogs, subIdx,
                   subprog, cfg, yielded>>

\* A faulty check that prints the error and goes on without sys.exit(1).
NoDwarfInfoNoExit ==
    /\ pc = "open"
    /\ Emit(<<Msg("NoDwarf")>>)
    /\ pc' = "cu_loop"
    /\ UNCHANGED <<argc, exit_code, uncaught, children, tag, cu_count,
                   subprog_count, subprog_with_pc, cuIdx, dieIdx, die,
                   nSubprogs, subIdx, subprog, cfg, yielded>>

\* if not elf.has_dwarf_info(): error, exit
NoDwarfInfo ==
    /\ pc = "open"
    /\ Exit(<<Msg("NoDwarf")>>)
    /\ UNCHANGED <<argc, uncaught, children, tag, cu_count, subprog_count,
                   subprog_with_pc, cuIdx, dieIdx, die, nSubprogs, subIdx,
                   subprog, cfg, yielded>>

\* dwarf_info = elf.get_dwarf_info(); the three counters start at 0
GetDwarfInfo ==
    /\ pc = "open"
    /\ \E n \in 0..MaxDies :
         \E par \in ParentMaps(n), tg \in [1..n -> Tags] :
            /\ children' = ChildrenOf(n, par, [d \in 0..n |-> FALSE])
            /\ tag' = tg
    /\ cu_count' = 0 /\ subprog_count' = 0 /\ subprog_with_pc' = 0
    /\ cuIdx' = 0
    /\ Emit(<<Msg("DwarfFound")>>)
    /\ pc' = "cu_loop"
    /\ UNCHANGED <<argc, exit_code, uncaught, dieIdx, die, nSubprogs, subIdx,
                   subprog, cfg, yielded>>

\* ---------------------------------------------------- main(): DWARF summary
\* for cu in dwarf_info.iter_CUs(): cu_count += 1; cu_die = cu.get_top_DIE()
NextCU ==
    /\ pc = "cu_loop"
    /\ cuIdx < Len(iter_CUs)
    /\ cuIdx' = cuIdx + 1
    /\ cu_count' = cu_count + 1
    /\ dieIdx' = 0
    /\ die' = NoDie
    /\ Emit(<<>>)
    /\ pc' = "die_loop"
    /\ UNCHANGED <<argc, exit_code, uncaught, children, tag, subprog_count,
                   subprog_with_pc, nSubprogs, subIdx, subprog, cfg, yielded>>

\* for die in iter_die(cu_die): the loop body, for the next DIE yielded
VisitDie ==
    /\ pc = "die_loop"
    /\ dieIdx < Len(IterDie(cu_die))
    /\ \E d \in DieInputs(IterDie(cu_die)[dieIdx + 1]) :
         /\ die' = d
         /\ subprog_count' = subprog_count + LoopBody(d).subprog
         /\ IF LoopBody(d).raised
            THEN /\ Uncaught("summary")
                 /\ UNCHANGED <<subprog_with_pc, dieIdx>>
            ELSE /\ subprog_with_pc' = subprog_with_pc + LoopBody(d).with_pc
                 /\ Emit(LoopBody(d).lines)
                 /\ dieIdx' = dieIdx + 1
                 /\ UNCHANGED <<pc, exit_code, uncaught>>
    /\ UNCHANGED <<argc, children, tag, cu_count, cuIdx, nSubprogs, subIdx,
                   subprog, cfg, yielded>>

\* iter_die(cu_die) is exhausted: back to the outer loop
EndCU ==
    /\ pc = "die_loop"
    /\ dieIdx = Len(IterDie(cu_die))
    /\ die' = NoDie
    /\ Emit(<<>>)
    /\ pc' = "cu_loop"
    /\ UNCHANGED <<argc, exit_code, uncaught, children, tag, cu_count,
                   subprog_count, subprog_with_pc, cuIdx, dieIdx, nSubprogs,
                   subIdx, subprog, cfg, yielded>>

\* A pyelftools call that advances one of the two loops raises (iter_CUs,
\* get_top_DIE, iter_children): no try encloses them, nothing catches it.
\* (The body's own uncaught exceptions, of the name's decoding and of
\* describe_form_class, are in VisitDie.)
SummaryRaises ==
    /\ pc \in {"cu_loop", "die_loop"}
    /\ Uncaught("summary")
    /\ die' = NoDie
    /\ UNCHANGED <<argc, children, tag, cu_count, subprog_count,
                   subprog_with_pc, cuIdx, dieIdx, nSubprogs, subIdx,
                   subprog, cfg, yielded>>

\* The summary lines, then the header of the cross-check.
SummaryLines ==
    <<Msg("Summary"), Line("CompilationUnits", cu_count, 0),
      Line("TotalSubprograms", subprog_count, 0),
      Line("SubprogramsWithPC", subprog_with_pc, 0), Msg("TygrHeader")>>

Summary ==
    /\ pc = "cu_loop"
    /\ cuIdx = Len(iter_CUs)
    /\ Emit(SummaryLines)
    /\ pc' = "tygr"
    /\ UNCHANGED <<argc, exit_code, uncaught, children, tag, cu_count,
                   subprog_count, subprog_with_pc, cuIdx, dieIdx, die,
                   nSubprogs, subIdx, subprog, cfg, yielded>>

\* ----------------------------------------- main(): the helper cross-check
\* What the loop reads of the subprogram tuple at position i: whether lines
\* 130-132 raise on it (a tuple that does not unpack, a PC range that is not
\* a pair of integers), whether dwarf_subprogram_to_vars raises, and else how
\* many variables it gives.
SubprogInputs(i) ==
    {[NoSubprog EXCEPT !.idx = i, !.header_raises = TRUE]}
    \cup {[NoSubprog EXCEPT !.idx = i, !.vars_raises = TRUE]}
    \cup {[NoSubprog EXCEPT !.idx = i, !.nvars = n] : n \in 0..MaxVars}

\* A faulty handler of the cross-check that raises again.
TygrExceptReraise ==
    /\ Emit(<<Msg("ErrTygr"), Msg("Traceback")>>)
    /\ uncaught' = "tygr"
    /\ exit_code' = ExitFailure
    /\ pc' = "crashed"

\* except Exception as e: of the cross-check, then the header that follows it
TygrExcept ==
    /\ Emit(<<Msg("ErrTygr"), Msg("Traceback"), Msg("SymHeader")>>)
    /\ pc' = "sym_load"
    /\ UNCHANGED <<exit_code, uncaught>>

\* the import or one of get_dwarf_info, dwarf_info_to_context,
\* dwarf_info_to_subprograms raises
TygrSetupRaises ==
    /\ pc = "tygr"
    /\ TygrExcept
    /\ UNCHANGED <<argc, children, tag, cu_count, subprog_count,
                   subprog_with_pc, cuIdx, dieIdx, die, nSubprogs, subIdx,
                   subprog, cfg, yielded>>

\* subprog_list = list(dwarf_info_to_subprograms(dwarf_info2))
TygrSetup ==
    /\ pc = "tygr"
    /\ \E n \in 0..MaxSubprogs :
         /\ nSubprogs' = n
         /\ Emit(<<Line("TygrFound", n, 0)>>)
    /\ subIdx' = 0
    /\ pc' = "tygr_loop"
    /\ UNCHANGED <<argc, exit_code, uncaught, children, tag, cu_count,
                   subprog_count, subprog_with_pc, cuIdx, dieIdx, die,
                   subprog, cfg, yielded>>

\* vars_list[:5], and the line for the rest
VarLines(n) ==
    [i \in 1..Min(n, ShownVars) |-> Line("Var", i, 0)]
    \o (IF n > ShownVars THEN <<Line("More", n - ShownVars, 0)>> ELSE <<>>)

\* A variable extraction with no try around it: the exception leaves the loop.
VarsErrorPropagates(s) == [lines |-> <<>>, raised |-> TRUE]

\* except Exception as e: around the variable extraction
VarsError(s) ==
    [lines |-> <<Msg("ErrVars"), Msg("Traceback")>>, raised |-> FALSE]

\* try: vars_list = list(dwarf_subprogram_to_vars(...)) ...
VarsReport(s) ==
    IF s.vars_raises THEN VarsError(s)
    ELSE [lines |-> <<Line("VarsFound", s.nvars, 0)>> \o VarLines(s.nvars),
          raised |-> FALSE]

\* The body of "for subprog in subprog_list" for one tuple: what it prints
\* and whether it raises.
SubprogBody(s) ==
    IF s.header_raises THEN [lines |-> <<>>, raised |-> TRUE]
    ELSE [lines |-> <<Line("Function", s.idx, 0), Msg("PCRange")>>
                    \o VarsReport(s).lines,
          raised |-> VarsReport(s).raised]

\* for subprog in subprog_list: the loop body, for the next subprogram
TygrVisit ==
    /\ pc = "tygr_loop"
    /\ subIdx < nSubprogs
    /\ \E s \in SubprogInputs(subIdx + 1) :
         /\ subprog' = s
         /\ IF SubprogBody(s).raised
            THEN TygrExcept /\ UNCHANGED subIdx
            ELSE /\ Emit(SubprogBody(s).lines)
                 /\ subIdx' = subIdx + 1
                 /\ UNCHANGED <<pc, exit_code, uncaught>>
    /\ UNCHANGED <<argc, children, tag, cu_count, subprog_count,
                   subprog_with_pc, cuIdx, dieIdx, die, nSubprogs, cfg, yielded>>

\* subprog_list is exhausted: the header of the symbolic-execution test
TygrEnd ==
    /\ pc = "tygr_loop"
    /\ subIdx = nSubprogs
    /\ subprog' = NoSubprog
    /\ Emit(<<Msg("SymHeader")>>)
    /\ pc' = "sym_load"
    /\ UNCHANGED <<argc, exit_code, uncaught, children, tag, cu_count,
                   subprog_count, subprog_with_pc, cuIdx, dieIdx, die,
                   nSubprogs, subIdx, cfg, yielded>>

\* ---------------------------------- main(): the symbolic-execution test
\* main() returns: the script ends with status 0.
Return(lines) ==
    /\ Emit(lines)
    /\ exit_code' = 0
    /\ pc' = "done"

\* except Exception as e: of the symbolic-execution test; main() returns
SymExcept(before) == Return(before \o <<Msg("ErrSym"), Msg("Traceback")>>)

\* import angr, angr.Project(...) or proj.analyses.CFGFast() raises
SymLoadRaises ==
    /\ pc = "sym_load"
    /\ SymExcept(<<>>)
    /\ UNCHANGED <<argc, uncaught, children, tag, cu_count, subprog_count,
                   subprog_with_pc, cuIdx, dieIdx, die, nSubprogs, subIdx,
                   subprog, cfg, yielded>>

\* The CFGs CFGFast may recover: main_addr can be among its functions only
\* if it has any.
Cfgs == {c \in [functions : 0..MaxFuncs, has_main : BOOLEAN] :
            c.has_main => c.functions >= 1}

\* proj = angr.Project(...); cfg = proj.analyses.CFGFast()
SymLoad ==
    /\ pc = "sym_load"
    /\ \E c \in Cfgs :
         /\ cfg' = c
         /\ Emit(<<Msg("Project"), Line("CfgFunctions", c.functions, 0)>>)
    /\ pc' = "sym_lookup"
    /\ UNCHANGED <<argc, exit_code, uncaught, children, tag, cu_count,
                   subprog_count, subprog_with_pc, cuIdx, dieIdx, die,
                   nSubprogs, subIdx, subprog, yielded>>

\* A faulty listing without the [:10] slice.
ListedFunctionsAll(n) == [i \in 1..n |-> Line("Function", i, 0)]

\* for addr, fn in list(cfg.functions.items())[:10]: one line each
ListedFunctions(n) == [i \in 1..Min(n, ListedFuncs) |-> Line("Function", i, 0)]

\* func = cfg.functions.get(main_addr); if func: ... else: ...
LookupLines(c) ==
    IF c.has_main
    THEN <<Msg("MainFound"), Msg("FunctionName"), Msg("FunctionSize")>>
    ELSE <<Msg("Warning"), Msg("Available")>> \o ListedFunctions(c.functions)

SymLookup ==
    /\ pc = "sym_lookup"
    /\ Emit(LookupLines(cfg))
    /\ pc' = "sym_strategy"
    /\ UNCHANGED <<argc, exit_code, uncaught, children, tag, cu_count,
                   subprog_count, subprog_with_pc, cuIdx, dieIdx, die,
                   nSubprogs, subIdx, subprog, cfg, yielded>>

\* the import of LessSimpleDominatorStrategy or its constructor raises
SymStrategyRaises ==
    /\ pc = "sym_strategy"
    /\ SymExcept(<<Msg("StrategyHeader")>>)
    /\ UNCHANGED <<argc, uncaught, children, tag, cu_count, subprog_count,
                   subprog_with_pc, cuIdx, dieIdx, die, nSubprogs, subIdx,
                   subprog, cfg, yielded>>

\* strategy = LessSimpleDominatorStrategy(proj, config=None)
SymStrategy ==
    /\ pc = "sym_strategy"
    /\ Emit(<<Msg("StrategyHeader"), Msg("StrategyCreated"), Msg("Attempting")>>)
    /\ pc' = "sym_exec"
    /\ UNCHANGED <<argc, exit_code, uncaught, children, tag, cu_count,
                   subprog_count, subprog_with_pc, cuIdx, dieIdx, die,
                   nSubprogs, subIdx, subprog, cfg, yielded>>

\* except Exception as e: around strategy.sim_exec_function(main_addr)
SimExecError == Return(<<Msg("ErrSimExec"), Msg("Traceback")>>)

\* strategy.sim_exec_function(main_addr) raises
SymExecRaises ==
    /\ pc = "sym_exec"
    /\ SimExecError
    /\ UNCHANGED <<argc, uncaught, children, tag, cu_count, subprog_count,
                   subprog_with_pc, cuIdx, dieIdx, die, nSubprogs, subIdx,
                   subprog, cfg, yielded>>

\* result = strategy.sim_exec_function(main_addr)
SymExec ==
    /\ pc = "sym_exec"
    /\ Return(<<Msg("Result"), Msg("StateTuples")>>)
    /\ UNCHANGED <<argc, uncaught, children, tag, cu_count, subprog_count,
                   subprog_with_pc, cuIdx, dieIdx, die, nSubprogs, subIdx,
                   subprog, cfg, yielded>>

Next ==
    \/ CheckArgs \/ OpenRaises \/ NoDwarfInfo \/ GetDwarfInfo
    \/ NextCU \/ VisitDie \/ EndCU \/ SummaryRaises \/ Summary
    \/ TygrSetupRaises \/ TygrSetup \/ TygrVisit \/ TygrEnd
    \/ SymLoadRaises \/ SymLoad \/ SymLookup
    \/ SymStrategyRaises \/ SymStrategy \/ SymExecRaises \/ SymExec

Spec == Init /\ [][Next]_vars

\* ------------------------------------------------- iter_die on its own
\* The trees of 1..MaxTree DIEs rooted at DIE 1, the children of each DIE in
\* either order.
WalkInit ==
    /\ pc = "walk"
    /\ argc = 2
    /\ exit_code = None
    /\ uncaught = ""
    /\ \E n \in 1..MaxTree :
         \E par \in ParentMaps(n), rev \in [0..n -> BOOLEAN] :
            /\ \A i \in 2..n : par[i] >= 1
            /\ children = ChildrenOf(n, par, rev)
            /\ tag = [i \in 1..n |-> Subprogram]
    /\ cu_count = 0 /\ subprog_count = 0 /\ subprog_with_pc = 0
    /\ cuIdx = 1 /\ dieIdx = 0 /\ die = NoDie
    /\ nSubprogs = 0 /\ subIdx = 0 /\ subprog = NoSubprog
    /\ cfg = NoCfg
    /\ out = <<>> /\ printed = {}
    /\ yielded = <<>>

\* next(iter_die(cu_die)): the consumer is given one more DIE
WalkNext ==
    /\ pc = "walk"
    /\ Len(yielded) < Len(IterDie(cu_die))
    /\ yielded' = Append(yielded, IterDie(cu_die)[Len(yielded) + 1])
    /\ UNCHANGED <<pc, argc, exit_code, uncaught, children, tag, cu_count,
                   subprog_count, subprog_with_pc, cuIdx, dieIdx, die,
                   nSubprogs, subIdx, subprog, cfg, out, printed>>

\* the generator is exhausted (StopIteration)
WalkEnd ==
    /\ pc = "walk"
    /\ Len(yielded) = Len(IterDie(cu_die))
    /\ pc' = "walked"
    /\ UNCHANGED <<argc, exit_code, uncaught, children, tag, cu_count,
                   subprog_count, subprog_with_pc, cuIdx, dieIdx, die,
                   nSubprogs, subIdx, subprog, cfg, out, printed, yielded>>

WalkStep == WalkNext \/ WalkEnd

SpecWalk == WalkInit /\ [][WalkStep]_vars

\* ================================================================ claims
\* The DIEs of the DWARF data, and the subprogram DIEs among them.
Dies == DOMAIN tag
SubprogramDies == {d \in Dies : tag[d] = Subprogram}
TopDies == {iter_CUs[i] : i \in 1..Len(iter_CUs)}
LinesOf(kind) == {out[i] : i \in {j \in 1..Len(out) : out[j].kind = kind}}

\* C1: when the DWARF summary runs to its end, the printed 'Compilation
\* Units' count is the number of compilation units of the input and the
\* printed 'Total subprograms' count is the number of its DIEs tagged
\* DW_TAG_subprogram, at any depth.
C1_SummaryCounts ==
    /\ \A l \in LinesOf("CompilationUnits") : l.a = Len(iter_CUs)
    /\ \A l \in LinesOf("TotalSubprograms") : l.a = Cardinality(SubprogramDies)
    /\ "Summary" \in printed =>
          /\ cu_count = Len(iter_CUs)
          /\ subprog_count = Cardinality(SubprogramDies)

\* The summary is printed for an input with a subprogram DIE below the top
\* DIE of its compilation unit.
C1_Witness ==
    /\ LinesOf("TotalSubprograms") # {}
    /\ SubprogramDies \ TopDies # {}
    /\ cu_count >= 1

\* C2: with no positional argument the script prints the usage line and
\* exits with status 1; with no DWARF info it prints the error line and
\* exits with status 1; in both cases the run is over and no phase has
\* printed or prints anything.
C2_ValidationExits ==
    /\ (argc < 2 /\ pc # "start") =>
          /\ pc = "exit" /\ exit_code = 1 /\ printed = {"Usage"}
    /\ "NoDwarf" \in printed =>
          /\ pc = "exit" /\ exit_code = 1 /\ printed = {"Analyzing", "NoDwarf"}
    /\ pc = "exit" =>
          /\ "Usage" \in printed \/ "NoDwarf" \in printed
          /\ ~ ENABLED Next

\* The run has ended on the binary without DWARF info.
C2_Witness == pc = "exit" /\ out = <<Msg("NoDwarf")>> /\ exit_code = 1

\* C3 as stated: an exception raised inside any of the three phases never
\* leaves main() uncaught.
C3_EveryPhaseGuarded == uncaught \notin {"summary", "tygr", "sym"}

\* C3 as amended: an exception raised in the helper cross-check or in the
\* symbolic-execution test is caught and reported there, the later phase
\* still runs and main() returns; an exception of the DWARF summary that is
\* not a range-list failure leaves main() uncaught before the cross-check
\* starts.
C3_LaterPhasesGuarded ==
    /\ uncaught \in {"", "open", "summary"}
    /\ "TygrHeader" \in printed =>
          /\ pc # "crashed"
          /\ pc = "done" \/ ENABLED Next
    /\ "ErrTygr" \in printed => "SymHeader" \in printed
    /\ pc = "done" =>
          /\ {"TygrHeader", "SymHeader"} \subseteq printed
          /\ exit_code = 0
    /\ uncaught = "summary" =>
          /\ pc = "crashed"
          /\ "TygrHeader" \notin printed
          /\ ~ ENABLED Next

\* Both later phases have failed and main() has returned.
C3_Witness == pc = "done" /\ {"ErrTygr", "ErrSym"} \subseteq printed

\* C4: a range-list failure for one subprogram of the summary loop, and a
\* variable-extraction failure for one subprogram of the cross-check loop,
\* are caught and reported, and the loop stays positioned on the next
\* element of its sequence; a loop that ends without an exception of another
\* kind has taken every element.
C4_PerSubprogramFailure ==
    /\ die.ranges_raises =>
          /\ pc = "die_loop" /\ uncaught = ""
          /\ Kinds(out) = {"Subprogram", "ErrRanges"}
          /\ IterDie(cu_die)[dieIdx] = die.id
    /\ subprog.vars_raises =>
          /\ pc = "tygr_loop" /\ uncaught = ""
          /\ "ErrVars" \in Kinds(out)
          /\ "ErrTygr" \notin printed
          /\ subIdx = subprog.idx
    /\ (pc = "sym_load" /\ "ErrTygr" \notin printed) => subIdx = nSubprogs
    /\ (pc = "cu_loop" /\ cuIdx >= 1) => dieIdx = Len(IterDie(cu_die))
    /\ "Summary" \in printed => cuIdx = Len(iter_CUs)

\* Variable extraction has failed for a subprogram that is not the last, and
\* the loop is about to take the next.
C4_Witness ==
    /\ subprog.vars_raises
    /\ subIdx < nSubprogs
    /\ ENABLED TygrVisit

\* A subprogram DIE that takes the last branch of the PC-range resolution.
NoPcDie(d) ==
    /\ d.tag = Subprogram
    /\ ~ FuncName(d).raised
    /\ "DW_AT_ranges" \notin d.attrs
    /\ "DW_AT_low_pc" \notin d.attrs

LowHighDie(d) ==
    /\ d.tag = Subprogram
    /\ ~ FuncName(d).raised
    /\ "DW_AT_ranges" \notin d.attrs
    /\ "DW_AT_low_pc" \in d.attrs

\* The bounds the low/high-PC branch reports for d by each form class, when
\* it reports any.
LowHighAsRead(d) ==
    /\ \A l \in LinesOf("LowHigh") :
          /\ l.a = d.low_pc
          /\ "DW_AT_high_pc" \in d.attrs
          /\ d.form_class \in {"address", "constant"}
          /\ d.form_class = "address" => l.b = d.high_val
          /\ d.form_class = "constant" => l.b = d.low_pc + d.high_val
    /\ ("DW_AT_high_pc" \in d.attrs /\ d.form_class = "address" /\ d.high_val # 0)
          => LinesOf("LowHigh") # {}
    /\ ("DW_AT_high_pc" \in d.attrs /\ d.form_class = "constant"
            /\ d.low_pc + d.high_val # 0)
          => LinesOf("LowHigh") # {}

\* C6 as stated: for a subprogram reported through the low/high-PC branch
\* the low bound is low_pc; with form class "address" the high bound is the
\* high_pc value and is at least the low bound; with "constant" it is low_pc
\* plus the value; with any other class no bound is reported.
C6_HighNotBelowLow ==
    LowHighDie(die) =>
        /\ LowHighAsRead(die)
        /\ \A l \in LinesOf("LowHigh") : die.form_class = "address" => l.b >= l.a

\* C6 as amended: the same, the "address" high bound being the high_pc value
\* as read, whether or not it is below the low bound.
C6_LowHighBounds == LowHighDie(die) => LowHighAsRead(die)

\* An "address" high_pc below low_pc has been reported as read.
C6_Witness ==
    /\ LowHighDie(die)
    /\ die.form_class = "address"
    /\ \E l \in LinesOf("LowHigh") : l.b < l.a

\* A subprogram DIE whose DW_AT_ranges has been resolved without error.
RangesDie(d) ==
    /\ d.tag = Subprogram
    /\ ~ FuncName(d).raised
    /\ "DW_AT_ranges" \in d.attrs
    /\ ~ d.ranges_raises

\* C7 as stated: for a subprogram reported through the ranges branch, the
\* number of range entries printed is the length of the resolved range list.
C7_EntriesPrintedIsLength ==
    RangesDie(die) => CountKind(out, "FirstRangeEntry") = Len(die.ranges)

\* C7 as amended: only the first entry of the resolved range list is printed:
\* one entry when the list is not empty, none when it is empty, with one
\* line for each probed attribute that first entry has.
C7_FirstEntryOnly ==
    RangesDie(die) =>
        /\ CountKind(out, "FirstRangeEntry") = (IF Len(die.ranges) >= 1 THEN 1 ELSE 0)
        /\ Len(die.ranges) >= 1 =>
              {l.a : l \in LinesOf("HasAttr")}
                  = {i \in 1..Len(ProbedNames) : ProbedNames[i] \in die.ranges[1]}
        /\ Len(die.ranges) = 0 => LinesOf("HasAttr") = {}

\* A range list of two entries has been resolved and reported.
C7_Witness ==
    /\ RangesDie(die)
    /\ Len(die.ranges) >= 2
    /\ die.ranges[1] # die.ranges[2]
    /\ CountKind(out, "FirstRangeEntry") = 1

\* C8: when main_addr is not in the CFG the script prints the warning and at
\* most ten functions, raises nothing, and goes on to build the strategy and
\* call sim_exec_function; an exception of sim_exec_function is caught and
\* reported, and main() returns whether or not the function was found.
C8_AbsentMain ==
    /\ "Warning" \in Kinds(out) =>
          /\ ~ cfg.has_main
          /\ pc = "sym_strategy" /\ uncaught = "" /\ exit_code = None
          /\ CountKind(out, "Function") <= 10
          /\ CountKind(out, "Function") = Min(cfg.functions, 10)
    /\ pc = "sym_strategy" => ENABLED SymStrategy
    /\ pc = "sym_exec" => "Attempting" \in printed /\ ENABLED SymExec
    /\ "ErrSimExec" \in printed =>
          pc = "done" /\ uncaught = "" /\ exit_code = 0
    /\ (pc = "done" /\ "Project" \in printed /\ "ErrSym" \notin printed) =>
          /\ "Attempting" \in printed
          /\ "Result" \in printed \/ "ErrSimExec" \in printed
    /\ "Project" \in printed => pc # "crashed"

\* main_addr was absent from a CFG of more than ten functions, and
\* sim_exec_function raised.
C8_Witness ==
    /\ pc = "done"
    /\ {"Warning", "ErrSimExec"} \subseteq printed
    /\ cfg.functions > 10

\* The DIEs of the subtree of d.
RECURSIVE Subtree(_)
Subtree(d) ==
    {d} \cup UNION {Subtree(children[d][i]) : i \in 1..Len(children[d])}

Pos(s, x) == CHOOSE i \in 1..Len(s) : s[i] = x

\* C9: iter_die(root) yields every DIE of the subtree once, a DIE before its
\* children, the children in iter_children's order, the whole subtree of a
\* child before the next child; a consumer is given them in that order, and
\* the generator is exhausted after the last.
C9_PreOrder ==
    LET s == IterDie(cu_die)
    IN  /\ {s[i] : i \in 1..Len(s)} = Subtree(cu_die)
        /\ Len(s) = Cardinality(Subtree(cu_die))
        /\ s[1] = cu_die
        /\ \A d \in Subtree(cu_die) : \A i \in 1..Len(children[d]) :
              /\ Pos(s, d) < Pos(s, children[d][i])
              /\ \A j \in (i + 1)..Len(children[d]) :
                    \A x \in Subtree(children[d][i]), y \in Subtree(children[d][j]) :
                        Pos(s, x) < Pos(s, y)
        /\ yielded = SubSeq(s, 1, Len(yielded))
        /\ pc = "walked" => yielded = s

\* The walk of a tree is over whose root has two children, given in
\* descending order, the first with a child of its own.
C9_Witness ==
    /\ pc = "walked"
    /\ Len(children[cu_die]) >= 2
    /\ children[cu_die][1] > children[cu_die][2]
    /\ children[children[cu_die][1]] # <<>>
    /\ Len(yielded) >= 4

\* The high bound the low/high-PC branch resolves for d, None if it has none.
ResolvedHigh(d) ==
    IF "DW_AT_high_pc" \notin d.attrs THEN None
    ELSE IF d.form_class = "address" THEN d.high_val
    ELSE IF d.form_class = "constant" THEN d.low_pc + d.high_val
    ELSE None

\* A subprogram DIE that has a PC range in the sense of the summary.
HasPcRange(d) ==
    /\ d.tag = Subprogram
    /\ \/ RangesDie(d) /\ Len(d.ranges) >= 1
       \/ LowHighDie(d) /\ ResolvedHigh(d) # None /\ ResolvedHigh(d) # 0

\* C10: the with-PC counter never exceeds the subprogram counter; handling a
\* DIE adds one to it when the DIE is a subprogram whose DW_AT_ranges
\* resolves to a list that is not empty, or that has no DW_AT_ranges but
\* DW_AT_low_pc and a DW_AT_high_pc whose resolved bound is not zero, and
\* adds nothing otherwise; the summary prints the counter so reached.
C10_WithPcCount ==
    /\ [](subprog_with_pc <= subprog_count)
    /\ [](\A l \in LinesOf("SubprogramsWithPC") : l.a = subprog_with_pc)
    /\ [][(die' # die /\ die'.id # 0 /\ pc' = "die_loop") =>
             subprog_with_pc' =
                 subprog_with_pc + (IF HasPcRange(die') THEN 1 ELSE 0)]_vars
    /\ [][subprog_with_pc' # subprog_with_pc =>
             (die' # die /\ die'.id # 0 /\ pc' = "die_loop")]_vars

\* A subprogram whose high_pc resolves to zero has been handled and not
\* counted, after one that was counted.
C10_Witness ==
    /\ LowHighDie(die)
    /\ "DW_AT_high_pc" \in die.attrs
    /\ die.form_class = "constant"
    /\ ResolvedHigh(die) = 0
    /\ subprog_count = 2 /\ subprog_with_pc = 1

====
